---- MODULE Spec2Model ----
(***************************************************************************)
(* mcp-youtube: the download_youtube_url tool.                             *)
(*                                                                         *)
(* Strings are sequences of atoms.  An atom is a TLA+ string holding one   *)
(* or more characters of the program's string; the atoms are chosen so     *)
(* that every pattern of the source ('<', '>', whitespace, the literal     *)
(* 'align:start position:0%', a bracketed timestamp, '\n') matches whole   *)
(* atoms only.  The inputs are drawn from strings built of these atoms.    *)
(***************************************************************************)
EXTENDS Integers, Sequences, FiniteSets, TLC

\* ------------------------------------------------------------------ bounds
MaxLineLen == 4      \* atoms in a line handed to cleanText
MaxTextLen == 5      \* atoms in a text handed to splitIntoChunks
MaxLimit   == 3      \* word limits tried for splitIntoChunks
MaxLines   == 4      \* caption lines in a content handed to processSubtitles
MaxChunks  == 7      \* chunks in a list handed to formatResponse

\* ------------------------------------------------------- program constants
CHUNK_SIZE_DEFAULT == 5000
CHUNK_SIZE_MIN     == 5000
CHUNK_SIZE_MAX     == 20000
CHUNKS_DEFAULT     == 1
CHUNKS_MAX         == 5
TIMEOUT            == 30000

\* ------------------------------------------------------------ JS strings
NL == "\n"

\* \s of a JS regular expression, and the characters trim() strips
IsSpace(a) == a \in {" ", "\t", NL}

\* String.prototype.split(sep) for a one-atom separator
RECURSIVE Split(_, _)
Split(s, sep) ==
    IF \A i \in 1..Len(s) : s[i] # sep
    THEN <<s>>
    ELSE LET i == CHOOSE k \in 1..Len(s) :
                     s[k] = sep /\ \A j \in 1..(k - 1) : s[j] # sep
         IN  <<SubSeq(s, 1, i - 1)>> \o Split(SubSeq(s, i + 1, Len(s)), sep)

\* Array.prototype.join(sep)
RECURSIVE Join(_, _)
Join(ls, sep) ==
    IF ls = <<>> THEN <<>>
    ELSE IF Len(ls) = 1 THEN ls[1]
    ELSE ls[1] \o <<sep>> \o Join(Tail(ls), sep)

\* String.prototype.trim()
RECURSIVE TrimStart(_)
TrimStart(s) ==
    IF s # <<>> /\ IsSpace(s[1]) THEN TrimStart(Tail(s)) ELSE s

RECURSIVE TrimEnd(_)
TrimEnd(s) ==
    IF s # <<>> /\ IsSpace(s[Len(s)]) THEN TrimEnd(SubSeq(s, 1, Len(s) - 1)) ELSE s

Trim(s) == TrimEnd(TrimStart(s))

\* ---------------------------------------------------------------- cleanText
\* .replace(/<[^>]+>/g, ''): a '<', one or more atoms other than '>', a '>'
RECURSIVE RemoveTags(_)
RemoveTags(s) ==
    IF s = <<>> THEN <<>>
    ELSE IF /\ s[1] = "<"
            /\ Len(s) >= 3
            /\ s[2] # ">"
            /\ \E j \in 3..Len(s) : s[j] = ">"
         THEN LET j == CHOOSE k \in 3..Len(s) :
                           s[k] = ">" /\ \A m \in 3..(k - 1) : s[m] # ">"
              IN  RemoveTags(SubSeq(s, j + 1, Len(s)))
         ELSE <<s[1]>> \o RemoveTags(Tail(s))

\* the literal of /align:start position:0%/
AlignToken == <<"align:start", " ", "position:0%">>

\* .replace(/align:start position:0%/g, '')
RECURSIVE RemoveAlign(_)
RemoveAlign(s) ==
    IF s = <<>> THEN <<>>
    ELSE IF Len(s) >= Len(AlignToken) /\ SubSeq(s, 1, Len(AlignToken)) = AlignToken
         THEN RemoveAlign(SubSeq(s, Len(AlignToken) + 1, Len(s)))
         ELSE <<s[1]>> \o RemoveAlign(Tail(s))

\* .replace(/\s+/g, ' ')
RECURSIVE CollapseSpace(_)
CollapseSpace(s) ==
    IF s = <<>> THEN <<>>
    ELSE IF IsSpace(s[1])
         THEN <<" ">> \o CollapseSpace(TrimStart(s))
         ELSE <<s[1]>> \o CollapseSpace(Tail(s))

cleanText(text) == Trim(CollapseSpace(RemoveAlign(RemoveTags(text))))

\* --------------------------------------------------------- processSubtitles
\* start times of the caption blocks, each matching \d{2}:\d{2}:\d{2}\.\d{3}
Timestamps == {"00:00:01.000", "00:00:03.000"}

\* CONSTANTS.TIMESTAMP_REGEX.test(line): the line starts with 'ts --> ts'
TimestampTest(line) ==
    /\ Len(line) >= 4
    /\ line[1] \in Timestamps
    /\ line[2] = " -->"
    /\ line[3] = " "
    /\ line[4] \in Timestamps

\* the locals of processSubtitles before its loop
SubtitleStart == [transcript |-> <<>>, currentTimestamp |-> <<>>, previousText |-> <<>>]

\* the test that lets a cleaned line into the transcript
IsNewText(cleanedText, previousText) == cleanedText # <<>> /\ cleanedText # previousText

\* Emit with the update of previousText forgotten
Emit_KeepPrevious(st, cleanedText) ==
    [st EXCEPT !.transcript = Append(@, <<"[">> \o st.currentTimestamp \o <<"]", " ">>
                                          \o cleanedText)]

\* what emitting a line does to the locals
Emit(st, cleanedText) ==
    [st EXCEPT !.transcript = Append(@, <<"[">> \o st.currentTimestamp \o <<"]", " ">>
                                          \o cleanedText),
               !.previousText = cleanedText]

\* one turn of the loop of processSubtitles
SubtitleStep(st, rawLine) ==
    LET line == Trim(rawLine) IN
    IF line = <<>> THEN st
    ELSE IF TimestampTest(line)
         THEN [st EXCEPT !.currentTimestamp = Split(line, " -->")[1]]
         ELSE LET cleanedText == cleanText(line) IN
              IF IsNewText(cleanedText, st.previousText)
              THEN Emit(st, cleanedText)
              ELSE st

RECURSIVE SubtitleLoop(_, _)
SubtitleLoop(st, lines) ==
    IF lines = <<>> THEN st ELSE SubtitleLoop(SubtitleStep(st, lines[1]), Tail(lines))

processSubtitles(content) ==
    Join(SubtitleLoop(SubtitleStart, Split(content, NL)).transcript, NL)

\* ---------------------------------------------------------- splitIntoChunks
\* .replace(/\[\d{2}:\d{2}:\d{2}\.\d{3}\]/g, '')
RECURSIVE RemoveTimestamps(_)
RemoveTimestamps(s) ==
    IF s = <<>> THEN <<>>
    ELSE IF Len(s) >= 3 /\ s[1] = "[" /\ s[2] \in Timestamps /\ s[3] = "]"
         THEN RemoveTimestamps(SubSeq(s, 4, Len(s)))
         ELSE <<s[1]>> \o RemoveTimestamps(Tail(s))

\* .split(/\s+/).length of a trimmed string: one more than its whitespace runs
\* (the empty string splits into one empty string)
SplitSpaceLength(s) ==
    1 + Cardinality({i \in 1..Len(s) : IsSpace(s[i]) /\ ~IsSpace(s[i + 1])})

countWords(line) == SplitSpaceLength(Trim(RemoveTimestamps(line)))

\* the locals of splitIntoChunks before its loop
ChunkStart == [chunks |-> <<>>, currentChunk |-> <<>>, currentWordCount |-> 0]

\* ExceedsLimit testing the count before the line is added to it
ExceedsLimit_BeforeAdding(currentWordCount, lineWordCount, wordLimit, currentChunk) ==
    currentWordCount > wordLimit /\ Len(currentChunk) > 0

\* the test that closes the chunk under construction
ExceedsLimit(currentWordCount, lineWordCount, wordLimit, currentChunk) ==
    currentWordCount + lineWordCount > wordLimit /\ Len(currentChunk) > 0

\* chunks.push(currentChunk.join('\n')) and the reset of the locals
CloseChunk(st) ==
    [chunks |-> Append(st.chunks, Join(st.currentChunk, NL)),
     currentChunk |-> <<>>, currentWordCount |-> 0]

\* one turn of the loop of splitIntoChunks
ChunkStep(st, line, wordLimit) ==
    LET lineWordCount == countWords(line)
        s1 == IF ExceedsLimit(st.currentWordCount, lineWordCount, wordLimit,
                              st.currentChunk)
              THEN CloseChunk(st) ELSE st
    IN  [s1 EXCEPT !.currentChunk = Append(@, line),
                   !.currentWordCount = @ + lineWordCount]

RECURSIVE ChunkLoop(_, _, _)
ChunkLoop(st, lines, wordLimit) ==
    IF lines = <<>> THEN st
    ELSE ChunkLoop(ChunkStep(st, lines[1], wordLimit), Tail(lines), wordLimit)

\* FlushChunk with the push after the loop forgotten
FlushChunk_Dropped(st) == st.chunks

\* the push of the last chunk after the loop
FlushChunk(st) ==
    IF Len(st.currentChunk) > 0
    THEN Append(st.chunks, Join(st.currentChunk, NL))
    ELSE st.chunks

splitIntoChunks(text, wordLimit) ==
    FlushChunk(ChunkLoop(ChunkStart, Split(text, NL), wordLimit))

\* ----------------------------------------------------------- validateConfig
\* An optional field of the options bag: <<>> when absent, <<v>> when v is given.
Nullish(opt, default) == IF opt = <<>> THEN default ELSE opt[1]

Min(a, b) == IF a < b THEN a ELSE b
Max(a, b) == IF a > b THEN a ELSE b

\* ClampChunkSize without its lower clamp
ClampChunkSize_NoMin(args) ==
    Min(Nullish(args.chunkSize, CHUNK_SIZE_DEFAULT), CHUNK_SIZE_MAX)

ClampChunkSize(args) ==
    Min(Max(Nullish(args.chunkSize, CHUNK_SIZE_DEFAULT), CHUNK_SIZE_MIN), CHUNK_SIZE_MAX)

\* ResolveChunkIndex clamping a negative index to the first chunk
ResolveChunkIndex_Clamped(args) == Max(Nullish(args.chunkIndex, 0), 0)

ResolveChunkIndex(args) == Nullish(args.chunkIndex, 0)

ResolveNumChunks(args) == Min(Nullish(args.chunks, CHUNKS_DEFAULT), CHUNKS_MAX)

validateConfig(args) ==
    [chunkSize  |-> ClampChunkSize(args),
     chunkIndex |-> ResolveChunkIndex(args),
     numChunks  |-> ResolveNumChunks(args)]

\* ----------------------------------------------------- processSubtitleContent
processSubtitleContent(content, args) ==
    LET fullContent == processSubtitles(content)
        config      == validateConfig(args)
        chunks      == splitIntoChunks(fullContent, config.chunkSize)
    IN  [config |-> config, chunks |-> chunks, totalChunks |-> Len(chunks)]

\* ----------------------------------------------------------- formatResponse
\* Array.prototype.slice(start, end) on integers: a negative index counts from
\* the end, and both are clipped to the array
Slice(arr, start, end) ==
    LET len   == Len(arr)
        k     == IF start < 0 THEN Max(len + start, 0) ELSE Min(start, len)
        final == IF end < 0 THEN Max(len + end, 0) ELSE Min(end, len)
    IN  SubSeq(arr, k + 1, final)

\* the test that makes formatResponse throw
InvalidChunkIndex(config, totalChunks) ==
    config.chunkIndex < 0 \/ config.chunkIndex >= totalChunks

\* The thrown Error is [error |-> its message]; the report is a record of the
\* numbers it prints and the chunks it renders, each under its '[Chunk i/total]'.
formatResponse(processed) ==
    LET config      == processed.config
        totalChunks == processed.totalChunks
    IN
    IF InvalidChunkIndex(config, totalChunks)
    THEN [error |-> <<"Invalid chunk index. Available chunks: 0-", totalChunks - 1>>]
    ELSE LET endIndex       == Min(config.chunkIndex + config.numChunks, totalChunks)
             selectedChunks == Slice(processed.chunks, config.chunkIndex, endIndex)
         IN  [chunkSize       |-> config.chunkSize,
              startingChunk   |-> config.chunkIndex + 1,
              chunksRequested |-> config.numChunks,
              totalAvailable  |-> totalChunks,
              rendered |-> [idx \in 1..Len(selectedChunks) |->
                              [label |-> <<config.chunkIndex + idx, totalChunks>>,
                               chunk |-> selectedChunks[idx]]]]

IsError(r) == "error" \in DOMAIN r

\* the message of the thrown Error
ErrorMessage(r) == <<r.error[1], ToString(r.error[2])>>

\* the text of the report: the template literal formatResponse returns
RECURSIVE RenderChunks(_)
RenderChunks(rendered) ==
    IF rendered = <<>> THEN <<>>
    ELSE <<"[Chunk ", ToString(rendered[1].label[1]), "/",
           ToString(rendered[1].label[2]), "]", NL>> \o rendered[1].chunk \o <<NL>>
         \o (IF Len(rendered) > 1 THEN <<NL, "=====================", NL>> ELSE <<>>)
         \o RenderChunks(Tail(rendered))

ReportText(r) ==
    <<"Configuration:", NL,
      "- Chunk size: ", ToString(r.chunkSize), " words", NL,
      "- Starting chunk: ", ToString(r.startingChunk), NL,
      "- Chunks requested: ", ToString(r.chunksRequested), NL,
      "- Total available chunks: ", ToString(r.totalAvailable), NL,
      "=====================", NL, NL>> \o RenderChunks(r.rendered)

\* ================================================================== state
VARIABLES
    \* cleanText applied to a line, and to its own result
    rawLine, cleanedOnce, cleanedTwice, cleanCalls,
    \* processSubtitles: its argument, the lines left to its loop, its locals,
    \* its result
    content, lines, subs, fullContent, subsPc,
    \* splitIntoChunks: its arguments and its result
    text, wordLimit, chunksOut, chunkPc,
    \* processSubtitleContent and formatResponse: the options bag, the chunk
    \* list, the ProcessedContent and the report or the thrown error
    args, chunkList, processed, formatted, cfgPc,
    \* one download_youtube_url call: the server build that handles it, the
    \* request, where the handler is, what its await settled with, the
    \* temporary directory, the yt-dlp process, the files it wrote, the
    \* timeout timer, the time since the call and the response (<<>> until the
    \* handler returns one)
    impl, request, pc, awaited, tempDir, ytdlp, dirFiles, timer, clock, response

cleanVars  == <<rawLine, cleanedOnce, cleanedTwice, cleanCalls>>
subsVars   == <<content, lines, subs, fullContent, subsPc>>
chunkVars  == <<text, wordLimit, chunksOut, chunkPc>>
cfgVars    == <<args, chunkList, processed, formatted, cfgPc>>
callVars   == <<impl, request, pc, awaited, tempDir, ytdlp, dirFiles, timer, clock,
                response>>
vars == <<cleanVars, subsVars, chunkVars, cfgVars, callVars>>

\* all strings of at most n atoms of the alphabet
StringsUpTo(alphabet, n) == UNION {[1..k -> alphabet] : k \in 0..n}

NoArgs == [chunkSize |-> <<>>, chunkIndex |-> <<>>, chunks |-> <<>>]

CleanIdle ==
    rawLine = <<>> /\ cleanedOnce = <<>> /\ cleanedTwice = <<>> /\ cleanCalls = 0
SubsIdle ==
    /\ content = <<>> /\ lines = <<>> /\ subs = SubtitleStart
    /\ fullContent = <<>> /\ subsPc = "idle"
ChunkIdle ==
    text = <<>> /\ wordLimit = 1 /\ chunksOut = <<>> /\ chunkPc = "idle"
CfgIdle ==
    /\ args = NoArgs /\ chunkList = <<>> /\ processed = <<>>
    /\ formatted = <<>> /\ cfgPc = "idle"
CallIdle ==
    /\ impl = "none" /\ request = <<>> /\ pc = "off" /\ awaited = "none"
    /\ tempDir = "none" /\ ytdlp = "none" /\ dirFiles = <<>>
    /\ timer = "unset" /\ clock = 0 /\ response = <<>>

\* ============================================================== cleanText
CleanAlphabet == {"<", ">", " ", "\t", "w", "align:start", "position:0%"}

InitClean ==
    /\ rawLine \in StringsUpTo(CleanAlphabet, MaxLineLen)
    /\ cleanedOnce = <<>> /\ cleanedTwice = <<>> /\ cleanCalls = 0
    /\ SubsIdle /\ ChunkIdle /\ CfgIdle /\ CallIdle

CleanLine ==
    /\ cleanCalls = 0
    /\ cleanedOnce' = cleanText(rawLine)
    /\ cleanCalls' = 1
    /\ UNCHANGED <<rawLine, cleanedTwice, subsVars, chunkVars, cfgVars, callVars>>

CleanAgain ==
    /\ cleanCalls = 1
    /\ cleanedTwice' = cleanText(cleanedOnce)
    /\ cleanCalls' = 2
    /\ UNCHANGED <<rawLine, cleanedOnce, subsVars, chunkVars, cfgVars, callVars>>

NextClean == CleanLine \/ CleanAgain

SpecClean == InitClean /\ [][NextClean]_vars

\* ======================================================= processSubtitles
\* lines of a caption file: blank, timing, plain text, text with markup
CaptionLines ==
    { <<>>,
      <<" ">>,
      <<"00:00:01.000", " -->", " ", "00:00:03.000">>,
      <<"00:00:03.000", " -->", " ", "00:00:01.000", " ", "align:start", " ",
        "position:0%">>,
      <<"w">>,
      <<"v">>,
      <<"<", "c", ">", "w", "<", "/c", ">">>,
      <<" ", "w", " ", "\t", "v">>,
      <<"<", "c", ">">> }

CaptionContents ==
    {Join(ls, NL) : ls \in UNION {[1..k -> CaptionLines] : k \in 0..MaxLines}}

InitSubs ==
    /\ content \in CaptionContents
    /\ lines = <<>> /\ subs = SubtitleStart /\ fullContent = <<>> /\ subsPc = "call"
    /\ CleanIdle /\ ChunkIdle /\ CfgIdle /\ CallIdle

SubsBegin ==
    /\ subsPc = "call"
    /\ lines' = Split(content, NL)
    /\ subs' = SubtitleStart
    /\ subsPc' = "loop"
    /\ UNCHANGED <<content, fullContent, cleanVars, chunkVars, cfgVars, callVars>>

SubsLine ==
    /\ subsPc = "loop"
    /\ lines # <<>>
    /\ subs' = SubtitleStep(subs, Head(lines))
    /\ lines' = Tail(lines)
    /\ UNCHANGED <<content, fullContent, subsPc, cleanVars, chunkVars, cfgVars,
                   callVars>>

SubsReturn ==
    /\ subsPc = "loop"
    /\ lines = <<>>
    /\ fullContent' = Join(subs.transcript, NL)
    /\ subsPc' = "done"
    /\ UNCHANGED <<content, lines, subs, cleanVars, chunkVars, cfgVars, callVars>>

NextSubs == SubsBegin \/ SubsLine \/ SubsReturn

SpecSubs == InitSubs /\ [][NextSubs]_vars

\* ======================================================== splitIntoChunks
TextAlphabet == {NL, " ", "w", "[", "00:00:01.000", "]"}

InitChunks ==
    /\ text \in StringsUpTo(TextAlphabet, MaxTextLen)
    /\ wordLimit \in 1..MaxLimit
    /\ chunksOut = <<>> /\ chunkPc = "call"
    /\ CleanIdle /\ SubsIdle /\ CfgIdle /\ CallIdle

SplitCall ==
    /\ chunkPc = "call"
    /\ chunksOut' = splitIntoChunks(text, wordLimit)
    /\ chunkPc' = "done"
    /\ UNCHANGED <<text, wordLimit, cleanVars, subsVars, cfgVars, callVars>>

NextChunks == SplitCall

SpecChunks == InitChunks /\ [][NextChunks]_vars

\* ======================================= validateConfig and formatResponse
Optional(S) == {<<>>} \cup {<<v>> : v \in S}

ArgsSet ==
    [chunkSize  : Optional({1, 4999, 5000, 12000, 20000, 20001, 999999}),
     chunkIndex : Optional(-1..MaxChunks),
     chunks     : Optional(-2..(CHUNKS_MAX + 2))]

\* a chunk list of n chunks, as splitIntoChunks returns it
ChunkListOf(n) == splitIntoChunks(Join([i \in 1..n |-> <<"w">>], NL), 1)

InitConfig ==
    /\ args \in ArgsSet
    /\ chunkList \in {ChunkListOf(n) : n \in 1..MaxChunks}
    /\ processed = <<>> /\ formatted = <<>> /\ cfgPc = "call"
    /\ CleanIdle /\ SubsIdle /\ ChunkIdle /\ CallIdle

\* processSubtitleContent from its validateConfig call on
ResolveConfig ==
    /\ cfgPc = "call"
    /\ processed' = [config |-> validateConfig(args), chunks |-> chunkList,
                     totalChunks |-> Len(chunkList)]
    /\ cfgPc' = "processed"
    /\ UNCHANGED <<args, chunkList, formatted, cleanVars, subsVars, chunkVars,
                   callVars>>

FormatCall ==
    /\ cfgPc = "processed"
    /\ formatted' = formatResponse(processed)
    /\ cfgPc' = "formatted"
    /\ UNCHANGED <<args, chunkList, processed, cleanVars, subsVars, chunkVars,
                   callVars>>

NextConfig == ResolveConfig \/ FormatCall

SpecConfig == InitConfig /\ [][NextConfig]_vars

\* ============================================== one download_youtube_url call
\* the two builds of the server: the processYoutubeSubtitles handler, and the
\* handler of index.mts
Builds == {"processYoutubeSubtitles", "index.mts"}

\* what yt-dlp may leave in the temporary directory
SubtitleFile ==
    [name |-> "video.en.srt",
     data |-> <<"00:00:01.000", " -->", " ", "00:00:03.000", NL, "w", " ", "v", NL, NL,
                "00:00:03.000", " -->", " ", "00:00:01.000", NL, "w", " ", "v", NL>>]

DirListings == {<<>>, <<SubtitleFile>>}

\* the forEach over readdirSync: content += `${file}\n====================\n${fileContent}`
RECURSIVE ReadFiles(_)
ReadFiles(files) ==
    IF files = <<>> THEN <<>>
    ELSE <<files[1].name, NL, "====================", NL>> \o files[1].data
         \o ReadFiles(Tail(files))

Requests ==
    [urlValid : BOOLEAN,
     args : [chunkSize  : Optional({1}),
             chunkIndex : Optional({-1, 0, 1}),
             chunks     : Optional({0})]]

\* the catch of the handler: `Error downloading video: ${err}`
ErrorResponse(err) == [isError |-> TRUE, text |-> <<"Error downloading video: ">> \o err]

TextResponse(t) == [isError |-> FALSE, text |-> t]

\* the time a Tick lets pass
TickMs == TIMEOUT \div 3

Init ==
    /\ impl \in Builds
    /\ request = <<>> /\ pc = "idle" /\ awaited = "none"
    /\ tempDir = "none" /\ ytdlp = "none" /\ dirFiles = <<>>
    /\ timer = "unset" /\ clock = 0 /\ response = <<>>
    /\ CleanIdle /\ SubsIdle /\ ChunkIdle /\ CfgIdle

\* processYoutubeSubtitles up to the await of validateAndDownloadSubtitles:
\* an invalid URL throws into the catch, a valid one makes the directory and
\* spawns yt-dlp
HandleCall(req) ==
    /\ impl = "processYoutubeSubtitles"
    /\ pc = "idle"
    /\ request' = req
    /\ IF ~req.urlValid
       THEN /\ response' = <<ErrorResponse(<<"Error: Invalid YouTube URL provided">>)>>
            /\ pc' = "returned"
            /\ UNCHANGED <<tempDir, ytdlp, awaited>>
       ELSE /\ tempDir' = "exists"
            /\ ytdlp' = "running"
            /\ awaited' = "pending"
            /\ pc' = "awaiting"
            /\ UNCHANGED response
    /\ UNCHANGED <<impl, dirFiles, timer, clock, cleanVars, subsVars, chunkVars, cfgVars>>

\* the handler of index.mts up to its await of Promise.race
MtsHandleCall(req) ==
    /\ impl = "index.mts"
    /\ pc = "idle"
    /\ request' = req
    /\ IF ~req.urlValid
       THEN /\ response' = <<[isError |-> TRUE, text |-> <<"Invalid YouTube URL provided">>]>>
            /\ pc' = "returned"
            /\ UNCHANGED <<tempDir, ytdlp, awaited, timer>>
       ELSE /\ tempDir' = "exists"
            /\ timer' = "armed"
            /\ ytdlp' = "running"
            /\ awaited' = "pending"
            /\ pc' = "awaiting"
            /\ UNCHANGED response
    /\ UNCHANGED <<impl, dirFiles, clock, cleanVars, subsVars, chunkVars, cfgVars>>

\* yt-dlp exits, with status 0 (spawnPromise resolves) or not (it rejects);
\* nothing makes it exit
YtDlpExits(ok, files) ==
    /\ ytdlp = "running"
    /\ ytdlp' = IF ok THEN "exited" ELSE "failed"
    /\ dirFiles' = IF ok THEN files ELSE <<>>
    /\ awaited' = IF awaited = "pending"
                  THEN (IF ok THEN "resolved" ELSE "rejected")
                  ELSE awaited
    /\ UNCHANGED <<impl, request, pc, tempDir, timer, clock, response,
                   cleanVars, subsVars, chunkVars, cfgVars>>

\* time passes while the handler waits
Tick ==
    /\ pc = "awaiting"
    /\ clock < TIMEOUT
    /\ clock' = clock + TickMs
    /\ UNCHANGED <<impl, request, pc, awaited, tempDir, ytdlp, dirFiles, timer, response,
                   cleanVars, subsVars, chunkVars, cfgVars>>

\* the setTimeout callback of index.mts: reject(new Error('Process timeout ...'))
TimeoutFires ==
    /\ timer = "armed"
    /\ clock >= TIMEOUT
    /\ timer' = "fired"
    /\ awaited' = IF awaited = "pending" THEN "timeout" ELSE awaited
    /\ UNCHANGED <<impl, request, pc, tempDir, ytdlp, dirFiles, clock, response,
                   cleanVars, subsVars, chunkVars, cfgVars>>

\* processYoutubeSubtitles after the await: a rejection goes to the catch; else
\* the files are read, the directory is removed in the finally, and the content
\* is processed and formatted
ResumeDownload(readOk) ==
    /\ impl = "processYoutubeSubtitles"
    /\ pc = "awaiting"
    /\ awaited \in {"resolved", "rejected"}
    /\ pc' = "returned"
    /\ IF awaited = "rejected"
       THEN /\ response' = <<ErrorResponse(<<"Error: yt-dlp failed">>)>>
            /\ UNCHANGED tempDir
       ELSE /\ tempDir' = "removed"
            /\ IF ~readOk
               THEN response' = <<ErrorResponse(<<"Error: read failed">>)>>
               ELSE LET fmt == formatResponse(
                                 processSubtitleContent(ReadFiles(dirFiles), request.args))
                    IN  response' = IF IsError(fmt)
                                    THEN <<ErrorResponse(<<"Error: ">> \o ErrorMessage(fmt))>>
                                    ELSE <<TextResponse(ReportText(fmt))>>
    /\ UNCHANGED <<impl, request, awaited, ytdlp, dirFiles, timer, clock,
                   cleanVars, subsVars, chunkVars, cfgVars>>

\* the handler of index.mts after the await: a rejection of the race (yt-dlp
\* failed, or the timeout) goes to the catch; else the files are read, the
\* directory is removed in the finally, and the content is returned
MtsResume(readOk) ==
    /\ impl = "index.mts"
    /\ pc = "awaiting"
    /\ awaited \in {"resolved", "rejected", "timeout"}
    /\ pc' = "returned"
    /\ IF awaited = "rejected"
       THEN /\ response' = <<ErrorResponse(<<"Error: yt-dlp failed">>)>>
            /\ UNCHANGED tempDir
       ELSE IF awaited = "timeout"
       THEN /\ response' = <<ErrorResponse(<<"Error: Process timeout after 30 seconds">>)>>
            /\ UNCHANGED tempDir
       ELSE /\ tempDir' = "removed"
            /\ response' = IF readOk THEN <<TextResponse(ReadFiles(dirFiles))>>
                           ELSE <<ErrorResponse(<<"Error: read failed">>)>>
    /\ UNCHANGED <<impl, request, awaited, ytdlp, dirFiles, timer, clock,
                   cleanVars, subsVars, chunkVars, cfgVars>>

Next ==
    \/ \E req \in Requests : HandleCall(req)
    \/ \E req \in Requests : MtsHandleCall(req)
    \/ \E ok \in BOOLEAN, files \in DirListings : YtDlpExits(ok, files)
    \/ Tick
    \/ TimeoutFires
    \/ \E readOk \in BOOLEAN : ResumeDownload(readOk)
    \/ \E readOk \in BOOLEAN : MtsResume(readOk)

Spec == Init /\ [][Next]_vars

\* The event loop runs a continuation whose promise has settled and a timer
\* whose time has come, and time passes; nothing makes yt-dlp exit.
FairSpec ==
    /\ Spec
    /\ WF_vars(Tick)
    /\ WF_vars(TimeoutFires)
    /\ WF_vars(\E readOk \in BOOLEAN : ResumeDownload(readOk))
    /\ WF_vars(\E readOk \in BOOLEAN : MtsResume(readOk))

\* ================================================================== claims
\* the lines of a newline-joined string
LinesOf(str) == Split(str, NL)

\* the words of a line, its bracketed timestamps left out: the starts of its
\* runs of atoms that are not whitespace
WordsOf(line) ==
    LET t == RemoveTimestamps(line) IN
    Cardinality({i \in 1..Len(t) : ~IsSpace(t[i]) /\ (i = 1 \/ IsSpace(t[i - 1]))})

RECURSIVE WordsOfAll(_)
WordsOfAll(ls) == IF ls = <<>> THEN 0 ELSE WordsOf(ls[1]) + WordsOfAll(Tail(ls))

\* C1: joining the chunks splitIntoChunks returns with a newline, in order,
\* gives back the text it was given, whatever the text and the word limit.
C1_ChunksRejoin ==
    chunkPc = "done" => Join(chunksOut, NL) = text

\* C1 witness: a text of three lines was split into two chunks, one of two lines.
C1_Witness ==
    /\ chunkPc = "done"
    /\ Len(LinesOf(text)) = 3
    /\ Len(chunksOut) = 2
    /\ Len(LinesOf(chunksOut[1])) = 2

\* C2: every chunk splitIntoChunks returns is a single line, or holds at most
\* wordLimit words, counted over its lines with the timestamps left out.
C2_ChunkWithinLimit ==
    chunkPc = "done" =>
        \A c \in 1..Len(chunksOut) :
            \/ Len(LinesOf(chunksOut[c])) = 1
            \/ WordsOfAll(LinesOf(chunksOut[c])) <= wordLimit

\* C2 witness: a chunk of two lines that fills the limit exactly, closed by a
\* line that would have taken it over the limit.
C2_Witness ==
    /\ chunkPc = "done"
    /\ Len(chunksOut) >= 2
    /\ Len(LinesOf(chunksOut[1])) = 2
    /\ WordsOfAll(LinesOf(chunksOut[1])) = wordLimit
    /\ WordsOfAll(LinesOf(chunksOut[2])) >= 1

\* the cleaned text of a transcript line '[timestamp] text'
TextOf(tline) ==
    LET close == CHOOSE k \in 1..Len(tline) :
                     tline[k] = "]" /\ \A j \in 1..(k - 1) : tline[j] # "]"
    IN  SubSeq(tline, close + 2, Len(tline))

\* the raw lines of the content that clean to a text
TextLines(str) ==
    {i \in 1..Len(LinesOf(str)) :
        LET l == Trim(LinesOf(str)[i]) IN
        l # <<>> /\ ~TimestampTest(l) /\ cleanText(l) # <<>>}

\* no two neighbours of the transcript have the same text
NoAdjacentDuplicate(transcript) ==
    \A i \in 1..(Len(transcript) - 1) : TextOf(transcript[i]) # TextOf(transcript[i + 1])

\* one turn of the loop emits the line it reads exactly when the line cleans to
\* a text other than that of the last transcript line, and emits nothing else
EmitsExactlyNewText ==
    (subsPc = "loop" /\ lines # <<>> /\ lines' = Tail(lines)) =>
        LET l    == Trim(Head(lines))
            c    == cleanText(l)
            old  == subs.transcript
            new  == subs'.transcript
            isText == l # <<>> /\ ~TimestampTest(l) /\ c # <<>>
            differs == old = <<>> \/ TextOf(old[Len(old)]) # c
        IN  IF isText /\ differs
            THEN /\ Len(new) = Len(old) + 1
                 /\ SubSeq(new, 1, Len(old)) = old
                 /\ TextOf(new[Len(new)]) = c
            ELSE new = old

\* C3: the transcript processSubtitles builds never has two consecutive lines
\* with the same cleaned text, and a line that cleans to a non-empty text is
\* emitted exactly when that text differs from the text of the line emitted
\* before it, whatever timestamp or discarded lines lie between.
C3_NoConsecutiveDuplicates ==
    /\ [](/\ NoAdjacentDuplicate(subs.transcript)
          /\ (subsPc = "done" => NoAdjacentDuplicate(LinesOf(fullContent))))
    /\ [][EmitsExactlyNewText]_vars

\* C3 witness: processSubtitles returned a transcript of two lines or more
\* after discarding a repeated text that followed a timing line.
C3_Witness ==
    /\ subsPc = "done"
    /\ Len(subs.transcript) >= 2
    /\ \E i \in TextLines(content) :
          /\ i >= 3
          /\ TimestampTest(Trim(LinesOf(content)[i - 1]))
          /\ (i - 2) \in TextLines(content)
          /\ cleanText(Trim(LinesOf(content)[i])) = cleanText(Trim(LinesOf(content)[i - 2]))
    /\ Cardinality(TextLines(content)) > Len(subs.transcript)

\* C4: cleaning is idempotent: cleaning a cleaned line changes nothing.
C4_CleanIdempotent ==
    cleanCalls = 2 => cleanedTwice = cleanedOnce

\* the value asked for, when the options bag holds one
Asked(opt) == opt[1]

AskedIndex == IF args.chunkIndex = <<>> THEN 0 ELSE Asked(args.chunkIndex)

\* C6: formatResponse throws 'Invalid chunk index. Available chunks:
\* 0-(totalChunks-1)' exactly when the chunk index asked for is below 0 or at
\* least totalChunks, and returns a report otherwise; the index reaches the
\* check as it was asked for, never clamped.
C6_InvalidIndexReported ==
    cfgPc = "formatted" =>
        LET total == Len(chunkList) IN
        /\ processed.config.chunkIndex = AskedIndex
        /\ IsError(formatted) <=> (AskedIndex < 0 \/ AskedIndex >= total)
        /\ IsError(formatted) =>
              formatted.error = <<"Invalid chunk index. Available chunks: 0-", total - 1>>
        /\ ~IsError(formatted) => formatted.startingChunk = AskedIndex + 1

\* C6 witness: chunk 5 was asked of two chunks, and the error names 0-1.
C6_Witness ==
    /\ cfgPc = "formatted"
    /\ args.chunkIndex = <<5>>
    /\ Len(chunkList) = 2
    /\ formatted = [error |-> <<"Invalid chunk index. Available chunks: 0-", 1>>]

\* C7: splitIntoChunks returns no empty chunk: no chunk at all for the empty
\* transcript, and only non-empty chunks for a transcript without empty lines.
C7_NoEmptyChunk ==
    chunkPc = "done" =>
        /\ text = <<>> => chunksOut = <<>>
        /\ (\A i \in 1..Len(LinesOf(text)) : LinesOf(text)[i] # <<>>) =>
              \A c \in 1..Len(chunksOut) : chunksOut[c] # <<>>

\* C8: every config validateConfig returns has numChunks in [1, 5] and
\* chunkIndex >= 0, and a report of formatResponse renders one to five chunks.
C8_ConfigInRange ==
    /\ cfgPc \in {"processed", "formatted"} =>
          /\ processed.config.numChunks >= 1
          /\ processed.config.numChunks <= 5
          /\ processed.config.chunkIndex >= 0
    /\ (cfgPc = "formatted" /\ ~IsError(formatted)) =>
          /\ Len(formatted.rendered) >= 1
          /\ Len(formatted.rendered) <= 5

\* C9: every call with a valid URL returns a response in the end, also when
\* yt-dlp never exits.
C9_CallReturns ==
    (pc = "awaiting") ~> (pc = "returned")

\* C10: when a call has returned, the temporary directory it made is gone.
C10_TempDirRemoved ==
    pc = "returned" => tempDir # "exists"

====
